---- MODULE Spec2Model ----
(***************************************************************************)
(* Model of the upstream-sync reconciler of galaxy-integrations-updater    *)
(* (src/scripts.py, function sync and the helpers it calls).               *)
(*                                                                         *)
(* The program is a straight-line sequence of calls to git (through _run)  *)
(* and to the GitHub API (through FogRepoManager).  The state is therefore *)
(* the state of the three repositories involved: the upstream repository,  *)
(* the fork on the hosting service (branches master and autoupdate, the    *)
(* open pull requests) and the local clone the program runs in (branches,  *)
(* remote-tracking refs, index and working tree), plus the position of the *)
(* running sync and its local variables.                                   *)
(*                                                                         *)
(* A tree maps every path of Paths to its content, Absent when the path    *)
(* does not exist.  A commit is [tree, up, n]: its tree, the tree of the   *)
(* upstream commit that is its merge base with upstream (NoUp when the     *)
(* histories are unrelated) and the number of commits made on top of the   *)
(* fork's root commit.                                                     *)
(*                                                                         *)
(* FogRepoManager.release is modelled next to it: the fork's releases by   *)
(* tag and the position of the running call.  Spec and SpecFiles explore   *)
(* sync, SpecRelease explores release.                                     *)
(***************************************************************************)
EXTENDS Integers, Sequences, FiniteSets, TLC

\* ------------------------------------------------------------------------
\* Program constants
\* ------------------------------------------------------------------------
FOG_BASE == "master"
FOG_PR_BRANCH == "autoupdate"
RELEASE_FILE == "current_version.json"
PATHS_TO_EXCLUDE == {"README.md", ".github/", RELEASE_FILE}
ALLOWED_LICENSES == {"mit", "gpl-3.0"}
MANIFEST == "manifest.json"
FILENAME == ".fog_config.json"

\* ------------------------------------------------------------------------
\* Bounds and input sets
\* ------------------------------------------------------------------------
MaxRuns == 2

\* calls of FogRepoManager.release that are explored
MaxReleases == 2

Absent == "absent"
None == "none"
NoLicense == "undetected"

\* the one file modelled inside the dependencies directory "vendor"
DepsFile == "vendor/x"
Paths == {MANIFEST, FILENAME, DepsFile} \cup PATHS_TO_EXCLUDE

\* the paths of a tree that lie under directory dir (git pathspec matching)
PathsUnder(dir) ==
    IF dir = "." THEN Paths
    ELSE IF dir = "vendor" THEN {DepsFile}
    ELSE {}

VerStrs == {"1.2", "1.2.0", "1.3.0", "1.3.0a1", "1.3.0.1"}
Licenses == {"mit", "gpl-3.0", "other", NoLicense}

\* ------------------------------------------------------------------------
\* distutils.version.StrictVersion, as used at scripts.py 318, 327, 332
\* ------------------------------------------------------------------------
\* the lexical pieces of a version string: the dot separated numbers and the
\* pre-release tag (letter a = 1, b = 2, then its number), <<>> when none
Components(s) ==
    CASE s = "1.2"     -> [nums |-> <<1, 2>>,       pre |-> <<>>]
      [] s = "1.2.0"   -> [nums |-> <<1, 2, 0>>,    pre |-> <<>>]
      [] s = "1.3.0"   -> [nums |-> <<1, 3, 0>>,    pre |-> <<>>]
      [] s = "1.3.0a1" -> [nums |-> <<1, 3, 0>>,    pre |-> <<1, 1>>]
      [] s = "1.3.0.1" -> [nums |-> <<1, 3, 0, 1>>, pre |-> <<>>]
      [] OTHER         -> [nums |-> <<>>,           pre |-> <<>>]

\* StrictVersion.version_re: two or three numbers, optional pre-release tag
ValidStrict(s) == Len(Components(s).nums) \in {2, 3}

\* StrictVersion.parse: the patch number defaults to 0
StrictVersion(s) ==
    LET c == Components(s)
    IN  [version |-> IF Len(c.nums) = 2 THEN Append(c.nums, 0) ELSE c.nums,
         prerelease |-> c.pre]

\* lexicographic comparison of two tuples of the same length: -1, 0 or 1
RECURSIVE TupleCmp(_, _)
TupleCmp(a, b) ==
    IF a = <<>> \/ b = <<>> THEN 0
    ELSE IF Head(a) < Head(b) THEN -1
    ELSE IF Head(a) > Head(b) THEN 1
    ELSE TupleCmp(Tail(a), Tail(b))

\* StrictVersion._cmp
VersionCmp(a, b) ==
    IF a.version # b.version THEN TupleCmp(a.version, b.version)
    ELSE IF a.prerelease = <<>> /\ b.prerelease = <<>> THEN 0
    ELSE IF a.prerelease # <<>> /\ b.prerelease = <<>> THEN -1
    ELSE IF a.prerelease = <<>> /\ b.prerelease # <<>> THEN 1
    ELSE TupleCmp(a.prerelease, b.prerelease)

\* a variant of the comparison of line 332 that uses < instead of <=
NoNewVersionStrict(upstream_v, master_v) ==
    VersionCmp(StrictVersion(upstream_v), StrictVersion(master_v)) < 0

\* line 332: strict_upstream_ver <= master_version
NoNewVersion(upstream_v, master_v) ==
    VersionCmp(StrictVersion(upstream_v), StrictVersion(master_v)) <= 0

\* ------------------------------------------------------------------------
\* Trees and commits
\* ------------------------------------------------------------------------
EmptyTree == [p \in Paths |-> Absent]

\* an upstream tree: manifest version ver, content res at every reserved
\* path, content deps in the dependencies directory, config file cfg
MkTree(ver, res, deps, cfg) ==
    [p \in Paths |->
        IF p = MANIFEST THEN ver
        ELSE IF p = FILENAME THEN cfg
        ELSE IF p = DepsFile THEN deps
        ELSE res]

\* upstream trees that differ in their manifest version only
VerTrees == {MkTree(v, "up", "d1", "vendor") : v \in VerStrs}

\* upstream trees that differ in their files only
FileTrees ==
    {MkTree("1.2.0", r, d, c) :
        r \in {Absent, "up"}, d \in {Absent, "d1", "d2"},
        c \in {Absent, "vendor"}}
    \cup {MkTree("1.2.0", "up", "d1", ".")}

NoUp == EmptyTree

\* the fork's master after init.py purge_content: only the fork's own
\* workflows and README, in a root commit unrelated to upstream
PurgedMaster ==
    [tree |-> [p \in Paths |->
                 IF p \in {"README.md", ".github/"} THEN "fog" ELSE Absent],
     up |-> NoUp, n |-> 0]

NoCommit == [tree |-> EmptyTree, up |-> NoUp, n |-> -1]

\* title = f"Version {version}" (line 215)
Title(version) == <<"Version", version>>

\* ------------------------------------------------------------------------
\* State
\* ------------------------------------------------------------------------
VARIABLES
    up,              \* tree of upstream's release branch
    license,         \* license key GitHub detects on upstream
    forkMaster,      \* commit of the fork's master
    forkAuto,        \* commit of the fork's autoupdate branch, or NoCommit
    openPRs,         \* titles of the open pull requests master <- autoupdate
    remoteUpstream,  \* the clone has a remote named upstream
    localMaster,     \* local branch master
    localAuto,       \* local branch autoupdate, or NoCommit
    rtMaster,        \* remote-tracking ref origin/master of the clone
    rtAuto,          \* remote-tracking ref origin/autoupdate, or NoCommit
    rtUpstream,      \* remote-tracking ref upstream/<release branch>
    cur,             \* the branch checked out in the clone
    idx,             \* the index (staged tree)
    wt,              \* the working tree
    merging,         \* a merge is in progress (MERGE_HEAD exists)
    pc,              \* position of the sync process
    upstream_ver,    \* local variable of sync
    initial_commit,  \* local variable of sync
    result,          \* how the run ended
    runs,            \* number of runs started
    did,             \* the mutations the current run has performed
    obs,             \* what the current run has observed and decided
    hist,            \* what happened since the previous run
    releases,        \* the fork's releases on the hosting service, by tag
    rel              \* the position and locals of FogRepoManager.release

hostVars == <<up, license, forkMaster, forkAuto, openPRs>>
repoVars == <<remoteUpstream, localMaster, localAuto, rtMaster, rtAuto,
              rtUpstream, cur, idx, wt, merging>>
localVars == <<upstream_ver, initial_commit>>
relVars == <<releases, rel>>
vars == <<up, license, forkMaster, forkAuto, openPRs, remoteUpstream,
          localMaster, localAuto, rtMaster, rtAuto, rtUpstream, cur, idx, wt,
          merging, pc, upstream_ver, initial_commit, result, runs, did, obs,
          hist, releases, rel>>

\* the commit HEAD points to
HeadCommit == IF cur = FOG_PR_BRANCH THEN localAuto ELSE localMaster

NewObs ==
    [master_version |-> None, passed |-> FALSE, flag |-> None,
     merge |-> None, unstage |-> None, tip |-> EmptyTree,
     reviewFailed |-> FALSE, faults |-> {}, raisedAt |-> None,
     startFresh |-> FALSE, rerun |-> FALSE, retry |-> FALSE,
     pr |-> None]

\* the version tags a release is made for
Tags == {"1.2.0", "1.3.0"}

\* release(): the zip archives made from the build directory
ZipNames == {"windows", "macos"}

\* release(): asset_paths, the archives in the order os.listdir gives them
AssetLists ==
    {<<>>, <<"windows">>, <<"macos">>, <<"windows", "macos">>,
     <<"macos", "windows">>}

\* a tag without a release
NoRelease == [exists |-> FALSE, draft |-> FALSE, assets |-> {}]

\* FogRepoManager.release before it is called
NewRel ==
    [pc |-> "idle", tag |-> None, asset_paths |-> <<>>, i |-> 1,
     failed |-> None, outcome |-> None, n |-> 0]

\* a fresh `git clone` of the fork: every branch of the fork becomes a
\* remote-tracking ref, master is checked out
InitFor(trees, licenses) ==
    /\ up \in trees
    /\ license \in licenses
    /\ forkMaster = PurgedMaster
    /\ forkAuto = NoCommit
    /\ openPRs = <<>>
    /\ remoteUpstream = FALSE
    /\ localMaster = PurgedMaster
    /\ localAuto = NoCommit
    /\ rtMaster = PurgedMaster
    /\ rtAuto = NoCommit
    /\ rtUpstream = NoUp
    /\ cur = FOG_BASE
    /\ idx = PurgedMaster.tree
    /\ wt = PurgedMaster.tree
    /\ merging = FALSE
    /\ pc = "idle"
    /\ upstream_ver = None
    /\ initial_commit = FALSE
    /\ result = None
    /\ runs = 0
    /\ did = {}
    /\ obs = NewObs
    /\ hist = [prev |-> None, changed |-> FALSE, fresh |-> TRUE]
    /\ releases = [t \in Tags |-> NoRelease]
    /\ rel = NewRel

\* an exception leaves sync: the run ends with an error
Raise(step) ==
    /\ pc' = "done"
    /\ result' = "error"
    /\ obs' = [obs EXCEPT !.raisedAt = step]

\* ------------------------------------------------------------------------
\* sync, one action per command it runs
\* ------------------------------------------------------------------------
\* main() calls sync(man)
StartSync ==
    /\ pc = "idle"
    /\ runs < MaxRuns
    /\ pc' = "license"
    /\ runs' = runs + 1
    /\ result' = None
    /\ upstream_ver' = None
    /\ initial_commit' = FALSE
    /\ did' = {}
    /\ obs' = [NewObs EXCEPT
                 !.startFresh = hist.fresh,
                 !.rerun = (hist.prev = "True" /\ ~hist.changed),
                 !.retry = (hist.prev = "killed" /\ ~hist.fresh
                            /\ remoteUpstream)]
    /\ hist' = [hist EXCEPT !.changed = FALSE, !.fresh = FALSE]
    /\ UNCHANGED <<hostVars, repoVars>>
    /\ UNCHANGED relVars

\* a license check that accepts every license
LicenseAcceptedAny(lic) == TRUE

\* get_parent_license: the license is detected and its key is allowed
LicenseAccepted(lic) == lic # NoLicense /\ lic \in ALLOWED_LICENSES

\* line 315: api.get_parent_license()
GetParentLicense ==
    /\ pc = "license"
    /\ IF LicenseAccepted(license)
       THEN pc' = "version" /\ UNCHANGED <<result, obs>>
       ELSE Raise("license")
    /\ UNCHANGED <<hostVars, repoVars, localVars, runs, did, hist>>
    /\ UNCHANGED relVars

\* lines 317-318: read the upstream manifest, parse its version
GetParentManifest ==
    /\ pc = "version"
    /\ IF up[MANIFEST] = Absent
       THEN Raise("version") /\ UNCHANGED upstream_ver
       ELSE /\ upstream_ver' = up[MANIFEST]
            /\ IF ValidStrict(up[MANIFEST])
               THEN pc' = "remotes" /\ UNCHANGED <<result, obs>>
               ELSE Raise("version")
    /\ UNCHANGED <<hostVars, repoVars, initial_commit, runs, did, hist>>
    /\ UNCHANGED relVars

\* lines 320-321: git remote set-url origin, git remote add upstream
\* (git remote add exits 3 when the remote already exists)
SetRemotes ==
    /\ pc = "remotes"
    /\ IF remoteUpstream
       THEN Raise("remotes") /\ UNCHANGED remoteUpstream
       ELSE remoteUpstream' = TRUE /\ pc' = "base" /\ UNCHANGED <<result, obs>>
    /\ UNCHANGED <<hostVars, localMaster, localAuto, rtMaster, rtAuto,
                   rtUpstream, cur, idx, wt, merging, localVars, runs, did,
                   hist>>
    /\ UNCHANGED relVars

\* lines 323-335: LocalRepo(branch=FOG_BASE) and the version comparison.
\* _checkout(master) cannot succeed in a clone: the local branch master
\* exists, so both `checkout --track` and `checkout -b` fail.
CheckoutBase ==
    /\ pc = "base"
    /\ IF cur # FOG_BASE
       THEN Raise("base") /\ UNCHANGED initial_commit
       ELSE IF wt[MANIFEST] = Absent
       THEN /\ initial_commit' = TRUE
            /\ pc' = "stale"
            /\ obs' = [obs EXCEPT !.master_version = Absent, !.passed = TRUE]
            /\ UNCHANGED result
       ELSE IF ~ValidStrict(wt[MANIFEST])
       THEN Raise("base") /\ UNCHANGED initial_commit
       ELSE IF NoNewVersion(upstream_ver, wt[MANIFEST])
       THEN /\ pc' = "done"
            /\ result' = "False"
            /\ obs' = [obs EXCEPT !.master_version = wt[MANIFEST]]
            /\ UNCHANGED initial_commit
       ELSE /\ pc' = "stale"
            /\ obs' = [obs EXCEPT !.master_version = wt[MANIFEST],
                                  !.passed = TRUE]
            /\ UNCHANGED <<initial_commit, result>>
    /\ UNCHANGED <<hostVars, repoVars, upstream_ver, runs, did, hist>>
    /\ UNCHANGED relVars

\* lines 337-340: without an open pull request the fork's autoupdate branch
\* is deleted (remove_fork_ref with ignore_fail: a missing ref is ignored)
StaleBranch ==
    /\ pc = "stale"
    /\ IF Len(openPRs) > 1
       THEN Raise("stale") /\ UNCHANGED <<forkAuto, did>>
       ELSE /\ pc' = "branch"
            /\ IF openPRs = <<>> /\ forkAuto # NoCommit
               THEN forkAuto' = NoCommit /\ did' = did \cup {"forkBranchDelete"}
               ELSE UNCHANGED <<forkAuto, did>>
            /\ obs' = [obs EXCEPT !.pr = IF openPRs = <<>> THEN "nopr"
                                         ELSE "open"]
            /\ UNCHANGED result
    /\ UNCHANGED <<up, license, forkMaster, openPRs, repoVars, localVars,
                   runs, hist>>
    /\ UNCHANGED relVars

\* line 343, LocalRepo(branch=FOG_PR_BRANCH), _checkout lines 102-105:
\* `git checkout --track origin/autoupdate` succeeds when the clone has the
\* remote-tracking ref and no local branch of that name; otherwise
\* `git checkout -b autoupdate` creates the branch from HEAD, and fails when
\* the local branch exists
CheckoutBranch ==
    /\ pc = "branch"
    /\ IF cur = FOG_PR_BRANCH
       THEN /\ pc' = "fetch"
            /\ UNCHANGED <<localAuto, cur, idx, wt, did, result, obs>>
       ELSE IF rtAuto # NoCommit /\ localAuto = NoCommit
       THEN /\ localAuto' = rtAuto
            /\ cur' = FOG_PR_BRANCH
            /\ idx' = rtAuto.tree
            /\ wt' = rtAuto.tree
            /\ did' = did \cup {"localBranch"}
            /\ pc' = "fetch"
            /\ UNCHANGED <<result, obs>>
       ELSE IF localAuto # NoCommit
       THEN Raise("branch") /\ UNCHANGED <<localAuto, cur, idx, wt, did>>
       ELSE /\ localAuto' = HeadCommit
            /\ cur' = FOG_PR_BRANCH
            /\ did' = did \cup {"localBranch"}
            /\ pc' = "publish"
            /\ UNCHANGED <<idx, wt, result, obs>>
    /\ UNCHANGED <<hostVars, remoteUpstream, localMaster, rtMaster, rtAuto,
                   rtUpstream, merging, localVars, runs, hist>>
    /\ UNCHANGED relVars

\* line 106: git push -u origin autoupdate, rejected when the fork has the
\* branch at another commit
PublishBranch ==
    /\ pc = "publish"
    /\ IF forkAuto = NoCommit \/ forkAuto = localAuto
       THEN /\ forkAuto' = localAuto
            /\ rtAuto' = localAuto
            /\ did' = did \cup {"publish"}
            /\ pc' = "fetch"
            /\ UNCHANGED <<result, obs>>
       ELSE Raise("publish") /\ UNCHANGED <<forkAuto, rtAuto, did>>
    /\ UNCHANGED <<up, license, forkMaster, openPRs, remoteUpstream,
                   localMaster, localAuto, rtMaster, rtUpstream, cur, idx, wt,
                   merging, localVars, runs, hist>>
    /\ UNCHANGED relVars

\* line 345: git fetch upstream
Fetch ==
    /\ pc = "fetch"
    /\ rtUpstream' = up
    /\ pc' = "remove"
    /\ UNCHANGED <<hostVars, remoteUpstream, localMaster, localAuto, rtMaster,
                   rtAuto, cur, idx, wt, merging, localVars, result, runs,
                   did, obs, hist>>
    /\ UNCHANGED relVars

\* _remove_items: the paths are deleted from the working tree
RemoveItemsFrom(tree, paths) ==
    [p \in Paths |-> IF p \in paths THEN Absent ELSE tree[p]]

\* line 348: _remove_items(PATHS_TO_EXCLUDE)
RemoveItems ==
    /\ pc = "remove"
    /\ wt' = RemoveItemsFrom(wt, PATHS_TO_EXCLUDE)
    /\ pc' = "merge"
    /\ UNCHANGED <<hostVars, remoteUpstream, localMaster, localAuto, rtMaster,
                   rtAuto, rtUpstream, cur, idx, merging, localVars, result,
                   runs, did, obs, hist>>
    /\ UNCHANGED relVars

\* ------------------------------------------------------------------------
\* git merge -s recursive -Xtheirs, file by file
\* ------------------------------------------------------------------------
\* the merge of one path: a side that left the ancestor alone takes the
\* other side's content; when both changed it, -Xtheirs takes upstream's
Merge3(anc, ours, theirs) ==
    IF ours = theirs THEN ours
    ELSE IF ours = anc THEN theirs
    ELSE IF theirs = anc THEN ours
    ELSE theirs

\* a path one side deleted and the other changed: -Xtheirs does not resolve
\* it, git merge prints CONFLICT (modify/delete) and exits 1
Conflict(anc, ours, theirs) ==
    /\ ours # theirs
    /\ ours # anc
    /\ theirs # anc
    /\ (ours = Absent \/ theirs = Absent)

\* a flag that allows unrelated histories in every run
UnrelatedHistoryAlways(initial) == TRUE

\* line 351: "--allow-unrelated-histories" if initial_commit else ''
UnrelatedHistory(initial) == initial

\* lines 350-360: the merge and its fallback.  fault is a failure of the
\* merge command that is not a conflict.
Merge ==
    /\ pc = "merge"
    /\ \E fault \in BOOLEAN :
        LET head == HeadCommit.tree
            anc == HeadCommit.up
            theirs == rtUpstream
            allow == UnrelatedHistory(initial_commit)
            flag == IF allow THEN "allow" ELSE "deny"
            merged == [p \in Paths |-> Merge3(anc[p], head[p], theirs[p])]
            conflicts == {p \in Paths : Conflict(anc[p], head[p], theirs[p])}
        IN  IF fault \/ (anc = NoUp /\ ~allow)
            THEN \* no CONFLICT in the output: line 360 re-raises
                 /\ pc' = "done"
                 /\ result' = "error"
                 /\ obs' = [obs EXCEPT !.raisedAt = "merge", !.flag = flag,
                              !.merge = "failed",
                              !.faults = IF fault THEN @ \cup {"merge"} ELSE @]
                 /\ UNCHANGED <<idx, wt, merging>>
            ELSE IF conflicts = {}
            THEN \* exit 0: the result is staged, nothing is committed
                 /\ idx' = merged
                 /\ wt' = [p \in Paths |->
                             IF merged[p] # head[p] THEN merged[p] ELSE wt[p]]
                 /\ merging' = (theirs # anc)
                 /\ pc' = "restore"
                 /\ obs' = [obs EXCEPT !.flag = flag,
                              !.merge = IF theirs = anc THEN "uptodate"
                                        ELSE "clean"]
                 /\ UNCHANGED result
            ELSE IF \E p \in conflicts : theirs[p] = Absent
            THEN \* lines 357: git checkout --theirs ./* exits 1 on a path
                 \* that has no version of theirs; _run raises
                 /\ pc' = "done"
                 /\ result' = "error"
                 /\ merging' = TRUE
                 /\ obs' = [obs EXCEPT !.raisedAt = "merge", !.flag = flag,
                              !.merge = "conflict"]
                 /\ UNCHANGED <<idx, wt>>
            ELSE \* lines 357-358: upstream's version of the unmerged paths
                 \* is checked out, then everything is staged
                 /\ idx' = merged
                 /\ wt' = merged
                 /\ merging' = TRUE
                 /\ pc' = "restore"
                 /\ obs' = [obs EXCEPT !.flag = flag, !.merge = "conflict"]
                 /\ UNCHANGED result
    /\ UNCHANGED <<hostVars, remoteUpstream, localMaster, localAuto, rtMaster,
                   rtAuto, rtUpstream, cur, localVars, runs, did, hist>>
    /\ UNCHANGED relVars

\* git checkout origin/master -- path, for every reserved path: a path the
\* base tree has is written to index and working tree, for a path it has
\* not the command fails and nothing changes (lines 363-367)
CheckoutReserved(tree, base) ==
    [p \in Paths |->
        IF p \in PATHS_TO_EXCLUDE /\ base[p] # Absent THEN base[p]
        ELSE tree[p]]

\* lines 362-367
Restore ==
    /\ pc = "restore"
    /\ idx' = CheckoutReserved(idx, rtMaster.tree)
    /\ wt' = CheckoutReserved(wt, rtMaster.tree)
    /\ pc' = "unstage"
    /\ UNCHANGED <<hostVars, remoteUpstream, localMaster, localAuto, rtMaster,
                   rtAuto, rtUpstream, cur, merging, localVars, result, runs,
                   did, obs, hist>>
    /\ UNCHANGED relVars

\* line 370: upstream_config is not None and its dependencies_dir != '.'
Unstages(cfg) == cfg # Absent /\ cfg # "."

\* `git reset <deps>` succeeds when deps exists in the working tree and then
\* resets the index entries under it to HEAD; otherwise it exits 128
ResetKnows(tree, deps) == \E p \in PathsUnder(deps) : tree[p] # Absent

\* lines 369-375: get_parent_config reads upstream's config file
Unstage ==
    /\ pc = "unstage"
    /\ LET deps == up[FILENAME]
       IN  IF Unstages(deps)
           THEN IF ResetKnows(wt, deps)
                THEN /\ idx' = [p \in Paths |->
                                  IF p \in PathsUnder(deps)
                                  THEN HeadCommit.tree[p] ELSE idx[p]]
                     /\ obs' = [obs EXCEPT !.unstage = "done"]
                ELSE \* check=False: the failure is ignored
                     /\ obs' = [obs EXCEPT !.unstage = "failed"]
                     /\ UNCHANGED idx
           ELSE UNCHANGED <<idx, obs>>
    /\ pc' = "commit"
    /\ UNCHANGED <<hostVars, remoteUpstream, localMaster, localAuto, rtMaster,
                   rtAuto, rtUpstream, cur, wt, merging, localVars, result,
                   runs, did, hist>>
    /\ UNCHANGED relVars

\* a check that always finds staged changes
StagedChangesAlways(index, head) == TRUE

\* line 378: git diff-index --quiet --cached HEAD exits 1
StagedChanges(index, head) == index # head

\* lines 377-382: commit the staged tree, or end the run
CommitIfChanges ==
    /\ pc = "commit"
    /\ IF StagedChanges(idx, HeadCommit.tree)
       THEN /\ localAuto' = [tree |-> idx,
                             up |-> IF merging THEN rtUpstream
                                    ELSE HeadCommit.up,
                             n |-> HeadCommit.n + 1]
            /\ merging' = FALSE
            /\ did' = did \cup {"commit"}
            /\ obs' = [obs EXCEPT !.tip = HeadCommit.tree]
            /\ pc' = "push"
            /\ UNCHANGED result
       ELSE /\ pc' = "done"
            /\ result' = "False"
            /\ UNCHANGED <<localAuto, merging, did, obs>>
    /\ UNCHANGED <<hostVars, remoteUpstream, localMaster, rtMaster, rtAuto,
                   rtUpstream, cur, idx, wt, localVars, runs, hist>>
    /\ UNCHANGED relVars

\* a push whose exit code is not checked: after a rejection the run goes on
PushUnchecked ==
    /\ pc = "push"
    /\ \E rejected \in BOOLEAN :
        IF rejected
        THEN /\ obs' = [obs EXCEPT !.faults = @ \cup {"push"}]
             /\ UNCHANGED <<forkAuto, rtAuto, did>>
        ELSE /\ forkAuto' = localAuto
             /\ rtAuto' = localAuto
             /\ did' = did \cup {"push"}
             /\ UNCHANGED obs
    /\ pc' = "pr"
    /\ UNCHANGED <<up, license, forkMaster, openPRs, remoteUpstream,
                   localMaster, localAuto, rtMaster, rtUpstream, cur, idx, wt,
                   merging, localVars, result, runs, hist>>
    /\ UNCHANGED relVars

\* line 384: git push origin autoupdate; rejected is the fork refusing it
Push ==
    /\ pc = "push"
    /\ \E rejected \in BOOLEAN :
        IF rejected
        THEN /\ pc' = "done"
             /\ result' = "error"
             /\ obs' = [obs EXCEPT !.raisedAt = "push",
                                   !.faults = @ \cup {"push"}]
             /\ UNCHANGED <<forkAuto, rtAuto, did>>
        ELSE /\ forkAuto' = localAuto
             /\ rtAuto' = localAuto
             /\ did' = did \cup {"push"}
             /\ pc' = "pr"
             /\ UNCHANGED <<result, obs>>
    /\ UNCHANGED <<up, license, forkMaster, openPRs, remoteUpstream,
                   localMaster, localAuto, rtMaster, rtUpstream, cur, idx, wt,
                   merging, localVars, runs, hist>>
    /\ UNCHANGED relVars

\* a create_or_update_pr that creates without looking for an open one
PullsAfterCreate(pulls, title) == Append(pulls, title)

\* create_or_update_pr: the open pull request gets the title, or one is
\* created with it
PullsAfter(pulls, title) ==
    IF pulls = <<>> THEN <<title>> ELSE [pulls EXCEPT ![1] = title]

\* line 386: api.create_or_update_pr(upstream_ver); get_autoupdate_pr
\* asserts that there is at most one open pull request
CreateOrUpdatePR ==
    /\ pc = "pr"
    /\ IF Len(openPRs) > 1
       THEN Raise("pr") /\ UNCHANGED <<openPRs, did>>
       ELSE /\ openPRs' = PullsAfter(openPRs, Title(upstream_ver))
            /\ did' = did \cup {IF openPRs = <<>> THEN "prCreate" ELSE "prEdit"}
            /\ pc' = "review"
            /\ UNCHANGED <<result, obs>>
    /\ UNCHANGED <<up, license, forkMaster, forkAuto, repoVars, localVars,
                   runs, hist>>
    /\ UNCHANGED relVars

\* a review step whose failure leaves sync as an exception
ReviewOutcomeRaises(failed) == IF failed THEN "error" ELSE "True"

\* lines 387-390: `finally: return True` discards any exception
ReviewOutcome(failed) == "True"

\* lines 387-390: api.assign_review(); failed is the review request call
\* failing; without an open pull request assign_review fails on None
AssignReview ==
    /\ pc = "review"
    /\ \E failed \in BOOLEAN :
        LET fails == failed \/ openPRs = <<>>
        IN  /\ result' = ReviewOutcome(fails)
            /\ obs' = [obs EXCEPT !.reviewFailed = fails,
                         !.faults = IF failed THEN @ \cup {"review"} ELSE @]
    /\ pc' = "done"
    /\ UNCHANGED <<hostVars, repoVars, localVars, runs, did, hist>>
    /\ UNCHANGED relVars

\* ------------------------------------------------------------------------
\* The environment
\* ------------------------------------------------------------------------
\* the process is killed between two commands
Kill ==
    /\ pc \notin {"idle", "done"}
    /\ pc' = "done"
    /\ result' = "killed"
    /\ UNCHANGED <<hostVars, repoVars, localVars, runs, did, obs, hist>>
    /\ UNCHANGED relVars

\* the process has ended
Exit ==
    /\ pc = "done"
    /\ pc' = "idle"
    /\ hist' = [hist EXCEPT !.prev = result]
    /\ UNCHANGED <<hostVars, repoVars, localVars, result, runs, did, obs>>
    /\ UNCHANGED relVars

\* the next run gets a fresh clone of the fork
Clone ==
    /\ pc = "idle"
    /\ runs < MaxRuns
    /\ ~hist.fresh
    /\ remoteUpstream' = FALSE
    /\ localMaster' = forkMaster
    /\ localAuto' = NoCommit
    /\ rtMaster' = forkMaster
    /\ rtAuto' = forkAuto
    /\ rtUpstream' = NoUp
    /\ cur' = FOG_BASE
    /\ idx' = forkMaster.tree
    /\ wt' = forkMaster.tree
    /\ merging' = FALSE
    /\ hist' = [hist EXCEPT !.fresh = TRUE]
    /\ UNCHANGED <<hostVars, pc, localVars, result, runs, did, obs>>
    /\ UNCHANGED relVars

\* a maintainer closes the pull request without merging it
HumanClosePR ==
    /\ openPRs # <<>>
    /\ openPRs' = Tail(openPRs)
    /\ hist' = [hist EXCEPT !.changed = TRUE]
    /\ UNCHANGED <<up, license, forkMaster, forkAuto, repoVars, pc,
                   localVars, result, runs, did, obs>>
    /\ UNCHANGED relVars

\* a maintainer merges the pull request: a merge commit on master with the
\* tree of the autoupdate branch
HumanMergePR ==
    /\ openPRs # <<>>
    /\ forkAuto # NoCommit
    /\ forkAuto.tree # forkMaster.tree
    /\ forkMaster' = [forkAuto EXCEPT !.n = @ + 1]
    /\ openPRs' = Tail(openPRs)
    /\ hist' = [hist EXCEPT !.changed = TRUE]
    /\ UNCHANGED <<up, license, forkAuto, repoVars, pc, localVars, result,
                   runs, did, obs>>
    /\ UNCHANGED relVars

\* upstream publishes another tree on its release branch
UpstreamRelease(trees) ==
    /\ pc = "idle"
    /\ runs < MaxRuns
    /\ \E t \in trees \ {up} : up' = t
    /\ hist' = [hist EXCEPT !.changed = TRUE]
    /\ UNCHANGED <<license, forkMaster, forkAuto, openPRs, repoVars, pc,
                   localVars, result, runs, did, obs>>
    /\ UNCHANGED relVars

\* ------------------------------------------------------------------------
\* FogRepoManager.release, one action per call to the hosting service
\* ------------------------------------------------------------------------
syncVars == <<hostVars, repoVars, localVars, pc, result, runs, did, obs, hist>>

\* release() calls api.release(version_tag, *asset_paths)
StartRelease ==
    /\ rel.pc = "idle"
    /\ rel.n < MaxReleases
    /\ \E tag \in Tags, paths \in AssetLists :
        rel' = [NewRel EXCEPT !.pc = "create", !.tag = tag,
                              !.asset_paths = paths, !.n = rel.n + 1]
    /\ UNCHANGED <<releases, syncVars>>

\* lines 259-265: create_git_release(draft=True), outside the try block: a
\* failure (fault, or a release that exists for the tag) raises
CreateGitRelease ==
    /\ rel.pc = "create"
    /\ \E fault \in BOOLEAN :
        IF fault \/ releases[rel.tag].exists
        THEN /\ rel' = [rel EXCEPT !.pc = "done", !.outcome = "raised"]
             /\ UNCHANGED releases
        ELSE /\ releases' = [releases EXCEPT ![rel.tag] =
                               [exists |-> TRUE, draft |-> TRUE, assets |-> {}]]
             /\ rel' = [rel EXCEPT !.pc = IF rel.asset_paths = <<>>
                                          THEN "publish" ELSE "upload"]
    /\ UNCHANGED syncVars

\* lines 267-268: release.upload_asset(str(asset)) for the next asset; an
\* exception goes to the except block
UploadAsset ==
    /\ rel.pc = "upload"
    /\ \E fault \in BOOLEAN :
        IF fault
        THEN /\ rel' = [rel EXCEPT !.pc = "delete", !.failed = "upload"]
             /\ UNCHANGED releases
        ELSE /\ releases' = [releases EXCEPT ![rel.tag].assets =
                                              @ \cup {rel.asset_paths[rel.i]}]
             /\ rel' = [rel EXCEPT !.i = @ + 1,
                                   !.pc = IF rel.i = Len(rel.asset_paths)
                                          THEN "publish" ELSE "upload"]
    /\ UNCHANGED syncVars

\* line 269: release.update_release(draft=False); lines 273-274: the else
\* block prints and release returns
UpdateRelease ==
    /\ rel.pc = "publish"
    /\ \E fault \in BOOLEAN :
        IF fault
        THEN /\ rel' = [rel EXCEPT !.pc = "delete", !.failed = "publish"]
             /\ UNCHANGED releases
        ELSE /\ releases' = [releases EXCEPT ![rel.tag].draft = FALSE]
             /\ rel' = [rel EXCEPT !.pc = "done", !.outcome = "returned"]
    /\ UNCHANGED syncVars

\* an except block that only prints
KeepRelease(rs, tag) == rs

\* line 272: release.delete_release()
DeleteReleaseOf(rs, tag) == [rs EXCEPT ![tag] = NoRelease]

\* lines 270-272: except Exception: the release is deleted, nothing is
\* raised again and release returns
DeleteRelease ==
    /\ rel.pc = "delete"
    /\ releases' = DeleteReleaseOf(releases, rel.tag)
    /\ rel' = [rel EXCEPT !.pc = "done", !.outcome = "returned"]
    /\ UNCHANGED syncVars

\* the call has ended
ReleaseExit ==
    /\ rel.pc = "done"
    /\ rel' = [rel EXCEPT !.pc = "idle"]
    /\ UNCHANGED <<releases, syncVars>>

SyncStep ==
    \/ StartSync
    \/ GetParentLicense
    \/ GetParentManifest
    \/ SetRemotes
    \/ CheckoutBase
    \/ StaleBranch
    \/ CheckoutBranch
    \/ PublishBranch
    \/ Fetch
    \/ RemoveItems
    \/ Merge
    \/ Restore
    \/ Unstage
    \/ CommitIfChanges
    \/ Push
    \/ CreateOrUpdatePR
    \/ AssignReview
    \/ Kill
    \/ Exit
    \/ Clone
    \/ HumanClosePR
    \/ HumanMergePR

\* upstream releases differ in their version
Init == InitFor(VerTrees, Licenses)
Next == SyncStep \/ UpstreamRelease(VerTrees)
Spec == Init /\ [][Next]_vars

\* upstream releases differ in their files
InitFiles == InitFor(FileTrees, {"mit"})
NextFiles == SyncStep \/ UpstreamRelease(FileTrees)
SpecFiles == InitFiles /\ [][NextFiles]_vars

\* the release task alone, on a fork that has not been synchronised
InitRelease == InitFor({MkTree("1.2.0", "up", "d1", "vendor")}, {"mit"})
NextRelease ==
    \/ StartRelease
    \/ CreateGitRelease
    \/ UploadAsset
    \/ UpdateRelease
    \/ DeleteRelease
    \/ ReleaseExit
SpecRelease == InitRelease /\ [][NextRelease]_vars

\* the positions of the sync process
Positions == {"idle", "license", "version", "remotes", "base", "stale",
              "branch", "publish", "fetch", "remove", "merge", "restore",
              "unstage", "commit", "push", "pr", "review", "done"}

TypeOK ==
    /\ pc \in Positions
    /\ result \in {None, "True", "False", "error", "killed"}
    /\ runs \in 0..MaxRuns
    /\ cur \in {FOG_BASE, FOG_PR_BRANCH}
    /\ did \subseteq {"forkBranchDelete", "localBranch", "publish", "commit",
                      "push", "prCreate", "prEdit"}

\* ------------------------------------------------------------------------
\* Properties
\* ------------------------------------------------------------------------
\* upstream version u is not newer than version l, in StrictVersion's order
NotNewer(u, l) == VersionCmp(StrictVersion(u), StrictVersion(l)) <= 0

\* C1: a run that has read a valid upstream version U and the base branch's
\* version L ends as a no-op (returns False, no mutation) exactly when
\* U <= L, and goes past the version check exactly when U > L; a run that
\* finds no manifest on the base branch always goes past the check.
C1_NoOpIffNotNewer ==
    (pc = "done" /\ obs.master_version # None) =>
        IF obs.master_version = Absent
        THEN obs.passed
        ELSE /\ (result = "False" /\ did = {})
                    <=> NotNewer(upstream_ver, obs.master_version)
             /\ obs.passed <=> ~NotNewer(upstream_ver, obs.master_version)

\* equal versions written differently: upstream "1.2", base branch "1.2.0"
C1_Witness ==
    /\ pc = "done"
    /\ result = "False"
    /\ did = {}
    /\ upstream_ver = "1.2"
    /\ obs.master_version = "1.2.0"

\* C2: while upstream's license is not allowed or not detected, or its
\* manifest version does not parse, a run performs no mutation, never gets
\* past the two checks and ends with an error.
C2_FailsBeforeMutation ==
    (pc # "idle" /\ (license \notin ALLOWED_LICENSES
                     \/ ~ValidStrict(up[MANIFEST]))) =>
        /\ did = {}
        /\ pc \in {"license", "version", "done"}
        /\ pc = "done" => result \in {"error", "killed"}

\* an allowed license, a version string that does not parse
C2_Witness ==
    /\ pc = "done"
    /\ result = "error"
    /\ obs.raisedAt = "version"
    /\ license \in ALLOWED_LICENSES
    /\ upstream_ver = "1.3.0.1"
    /\ did = {}

\* C3: the fork never has more than one open pull request from autoupdate
\* to master.
C3_AtMostOneOpenPR == Len(openPRs) <= 1

\* a run found the open pull request and changed its title
C3_Witness ==
    /\ Len(openPRs) = 1
    /\ "prEdit" \in did
    /\ runs = MaxRuns

C5_ReservedEqualBase ==
    (pc = "done" /\ result = "True") =>
        \A p \in PATHS_TO_EXCLUDE : localAuto.tree[p] = rtMaster.tree[p]

\* C6: once the pull request was created or updated, the run returns True
\* whether or not the review request fails.
C6_ReviewFailureIgnored ==
    (pc = "done" /\ result # "killed" /\ did \cap {"prCreate", "prEdit"} # {})
        => result = "True"

\* the review request failed and the run returned True
C6_Witness ==
    /\ pc = "done"
    /\ "review" \in obs.faults
    /\ obs.reviewFailed
    /\ "push" \in did
    /\ result = "True"

\* C7: a run started in the working tree of a killed run (killed after the
\* upstream remote was added), with nothing else changed and no command
\* failing for outside reasons, runs to completion; when it gets past the
\* version check it ends with the branch pushed and one open pull request.
C7_RetryCompletes ==
    (pc = "done" /\ obs.retry /\ result # "killed" /\ obs.faults = {}
     /\ ~hist.changed) =>
        /\ result \in {"True", "False"}
        /\ obs.passed => (forkAuto # NoCommit /\ Len(openPRs) = 1)

\* C8: when upstream's config names a dependencies directory other than
\* ".", the commit of the run changes nothing under that directory.
C8_DepsExcluded ==
    ("commit" \in did /\ pc \in {"push", "pr", "review", "done"}
     /\ up[FILENAME] \notin {Absent, "."}) =>
        \A p \in PathsUnder(up[FILENAME]) : localAuto.tree[p] = obs.tip[p]

\* C9: the merge allows unrelated histories exactly when the base branch
\* has no manifest; an initial sync that commits, is not killed, whose push
\* is not rejected and that no maintainer interferes with, returns True with
\* the autoupdate branch pushed and one open pull request titled with
\* upstream's version.
C9_InitialSync ==
    /\ (pc # "idle" /\ obs.flag # None) =>
          (obs.flag = "allow" <=> localMaster.tree[MANIFEST] = Absent)
    /\ (pc = "done" /\ initial_commit /\ "commit" \in did
        /\ result # "killed" /\ "push" \notin obs.faults /\ ~hist.changed) =>
          /\ result = "True"
          /\ forkAuto = localAuto
          /\ openPRs = <<Title(upstream_ver)>>

\* upstream "1.2.0", no manifest on the base branch: branch created and
\* published, unrelated histories merged, pull request "Version 1.2.0"
C9_Witness ==
    /\ pc = "done"
    /\ initial_commit
    /\ obs.flag = "allow"
    /\ {"localBranch", "publish", "commit", "push", "prCreate"} \subseteq did
    /\ result = "True"
    /\ forkAuto = localAuto
    /\ forkAuto.up = up
    /\ openPRs = <<Title("1.2.0")>>

\* C10: after a merge that failed with a conflict the run goes on (the
\* merge step raises nothing); after any other merge failure the run ends
\* with an error and without commit, push or pull-request change.
C10_MergeFailure ==
    /\ obs.merge = "conflict" => obs.raisedAt # "merge"
    /\ obs.merge = "failed" =>
          /\ result = "error"
          /\ did \cap {"commit", "push", "prCreate", "prEdit"} = {}

\* C11: a run that found no open pull request at line 338 leaves no
\* autoupdate branch on the fork and then works on a branch created from the
\* base-branch HEAD; a run that found an open pull request deletes nothing
\* and works on the fork's autoupdate branch.
C11_StaleBranchFresh ==
    /\ (pc = "branch" /\ obs.pr = "nopr") => forkAuto = NoCommit
    /\ (pc \in {"publish", "fetch", "remove", "merge"} /\ obs.pr = "nopr") =>
          localAuto = localMaster
    /\ (pc \in {"fetch", "remove", "merge"} /\ obs.pr = "open") =>
          /\ "forkBranchDelete" \notin did
          /\ forkAuto # NoCommit
          /\ localAuto = forkAuto

\* what a run has done so far is in the order commit, push, pull request
C12_Order ==
    /\ did \cap {"prCreate", "prEdit"} # {} => "push" \in did
    /\ "push" \in did => "commit" \in did
    /\ ("commit" \in did /\ pc = "push") => localAuto.tree # obs.tip
    /\ (pc = "done" /\ result = "False" /\ obs.passed) =>
          did \cap {"commit", "push", "prCreate", "prEdit"} = {}
    /\ (pc = "done" /\ obs.raisedAt = "push") =>
          /\ result = "error"
          /\ did \cap {"push", "prCreate", "prEdit"} = {}

\* the step at line 378 without a staged diff, and the step of a rejected
\* push, end the run and change neither the branches nor the pull requests
C12_Step ==
    /\ (pc = "commit" /\ pc' # pc /\ result' # "killed"
          /\ idx = HeadCommit.tree) =>
          /\ pc' = "done"
          /\ result' = "False"
          /\ UNCHANGED <<localAuto, forkAuto, openPRs, did>>
    /\ (pc = "push" /\ pc' # pc /\ result' # "killed"
          /\ "push" \in obs'.faults) =>
          /\ pc' = "done"
          /\ result' = "error"
          /\ UNCHANGED <<forkAuto, openPRs, did>>

\* C12: in every run a pull request is created or edited only after the
\* push succeeded and the push only after a commit of a non-empty staged
\* diff; without a staged diff the run returns False with no commit, push
\* or pull-request change; a rejected push ends the run with an error and
\* no pull-request change.
C12_CommitPushPR == []C12_Order /\ [][C12_Step]_vars

\* a run committed and its push was rejected
C12_Witness ==
    /\ pc = "done"
    /\ obs.raisedAt = "push"
    /\ "push" \in obs.faults
    /\ "commit" \in did
    /\ openPRs = <<>>

\* the assets given to the current call
GivenAssets == {rel.asset_paths[k] : k \in 1..Len(rel.asset_paths)}

====
